---- MODULE Spec2Model ----
(***************************************************************************)
(* Model of src/app.py: the race over Invidious mirrors                    *)
(* (request_invidious), the route handlers that call it (api_search,       *)
(* api_video, api_comments) and the stream resolution (api_streamurl).     *)
(* One logical request is handled at a time; the worker threads of the     *)
(* ThreadPoolExecutor interleave freely with the handler.                  *)
(***************************************************************************)
EXTENDS Integers, Sequences, FiniteSets, TLC

(* ------------------------------ bounds -------------------------------- *)

\* Longest endpoint pool of a modelled deployment (the shipped pools hold
\* 6 to 11 mirrors; the model keeps the first MaxPool of each).
MaxPool == 2

\* Largest value of the abstract clock of SpecTimed.
MaxElapsed == 2

(* ----------------------- JSON documents and bodies --------------------- *)

\* A JSON field: absent, a string, or an object with one string member.
Absent == [type |-> "absent", v |-> ""]
Str(s) == [type |-> "string", v |-> s]
Obj(s) == [type |-> "object", v |-> s]

\* A JSON document (or Python value): type is "object", "array" or "none".
Json(t, title, author, description) ==
    [type |-> t, title |-> title, author |-> author, description |-> description]

None == Json("none", Absent, Absent, Absent)

\* Raw response bodies.
TextEmpty == ""
TextHtml == "<html>error</html>"
TextA == "{title:A,author:a,description:da}"
TextB == "{title:B,author:b,description:db}"
TextEdu == "{title:E,author:{name:e},description:{formatted:fe}}"
TextList == "[]"

DocA == Json("object", Str("A"), Str("a"), Str("da"))
DocB == Json("object", Str("B"), Str("b"), Str("db"))
DocEdu == Json("object", Str("E"), Obj("e"), Obj("fe"))
DocList == Json("array", Absent, Absent, Absent)

\* r.json(): the parsed document, or a raised JSONDecodeError.
ParseJson(text) ==
    CASE text = TextA -> [raised |-> FALSE, value |-> DocA]
      [] text = TextB -> [raised |-> FALSE, value |-> DocB]
      [] text = TextEdu -> [raised |-> FALSE, value |-> DocEdu]
      [] text = TextList -> [raised |-> FALSE, value |-> DocList]
      [] OTHER -> [raised |-> TRUE, value |-> None]

(* ----------------------------- HTTP layer ------------------------------ *)

\* What an upstream does with one GET: a network error / timeout
\* (raised), or a response with a status and a body.
NetError == [raised |-> TRUE, exc |-> "RequestException", status |-> 0, text |-> ""]
Resp(status, text) == [raised |-> FALSE, exc |-> "", status |-> status, text |-> text]
TypeError == [raised |-> TRUE, exc |-> "TypeError", status |-> 0, text |-> ""]

\* Behaviours of a mirror for one request.
MirrorResponses ==
    { NetError, Resp(500, TextA), Resp(200, TextEmpty), Resp(200, TextHtml),
      Resp(200, TextA), Resp(200, TextB), Resp(200, TextList) }

\* Behaviours of the dedicated EDU service for one request.
PrimaryResponses ==
    { NetError, Resp(500, TextEdu), Resp(200, TextHtml), Resp(200, TextEdu),
      Resp(200, TextA) }

\* requests.get(url, params=None, **kwargs): at most two positional
\* arguments bind; a call with more raises TypeError before anything is sent.
RequestsGetSends(npos) == npos <= 2

requests_get(npos, upstream) ==
    IF RequestsGetSends(npos) THEN upstream ELSE TypeError

(* --------------------------- configuration ----------------------------- *)

Capabilities == {"video", "search", "comments"}

\* Leading entries of the shipped pools.
ShippedPool(c) ==
    CASE c = "video" -> << "https://invidious.exma.de/", "https://invidious.f5.si/",
                           "https://siawaseok-wakame-server2.glitch.me/",
                           "https://lekker.gay/", "https://id.420129.xyz/" >>
      [] c = "search" -> << "https://pol1.iv.ggtyler.dev/", "https://youtube.mosesmang.com/",
                            "https://iteroni.com/", "https://invidious.0011.lt/",
                            "https://iv.melmac.space/" >>
      [] c = "comments" -> << "https://siawaseok-wakame-server2.glitch.me/",
                              "https://invidious.0011.lt/",
                              "https://invidious.nietzospannend.nl/",
                              "https://invidious.lunivers.trade/",
                              "https://invidious.ducks.party/" >>

Min(a, b) == IF a < b THEN a ELSE b

\* The deployments modelled: every pool cut to its first n entries,
\* n = 0 being a deployment with no mirrors configured.
Registry(n) == [c \in Capabilities |-> SubSeq(ShippedPool(c), 1, Min(n, Len(ShippedPool(c))))]

\* A deployment that lists the first mirror of every pool n times.
DuplicateRegistry(n) == [c \in Capabilities |-> [k \in 1..n |-> ShippedPool(c)[1]]]

Registries == { Registry(n) : n \in 0..MaxPool } \cup { DuplicateRegistry(n) : n \in 2..MaxPool }

EDU_VIDEO_API_BASE_URL == "https://siawaseok.duckdns.org/api/video2/"


(* ------------------------------- state --------------------------------- *)

VARIABLES
    INVIDIOUS_APIS, \* the endpoint pools, per capability
    op,             \* route handler in progress: "none", "search", "video",
                    \* "comments", "stream"
    pc,             \* position of the logical request
    primarySvc,     \* what the EDU service answers to this request if asked
    apis,           \* request_invidious: the pool argument
    futures,        \* request_invidious: the submitted futures, in pool order
    completion,     \* indices of the futures in the order they finished
    preDone,        \* futures already finished when as_completed was entered
    yielded,        \* indices handed to the loop body, in order
    raceOut,        \* request_invidious: pending return value, then its outcome
    sent,           \* the outbound requests issued for this logical request
    result,         \* what the handler hands to its caller
    elapsed,        \* abstract time since the race started
    resolverSvc,    \* what each stream resolver answers to this request if asked
    short           \* api_streamurl: the short parameter

vars == << INVIDIOUS_APIS, op, pc, primarySvc, apis, futures, completion, preDone,
           yielded, raceOut, sent, result, elapsed, resolverSvc, short >>

\* An outcome of a call: nothing yet, a returned value, or a raised exception.
NoOutcome == [kind |-> "none", exc |-> "", value |-> None]
Return(v) == [kind |-> "return", exc |-> "", value |-> v]
Raise(e) == [kind |-> "raise", exc |-> e, value |-> None]


\* A future of the executor: the mirror it asks, its state (PENDING in the
\* work queue, RUNNING in a worker thread, FINISHED), and what requests.get
\* produced (set when it finishes).
Unset == [raised |-> FALSE, exc |-> "", status |-> 0, text |-> ""]
Future(api, st) == [api |-> api, state |-> st, r |-> Unset]

\* The path each handler asks the mirrors for.
PathOf(o) ==
    CASE o = "search" -> "api/v1/search"
      [] o = "comments" -> "api/v1/comments"
      [] OTHER -> "api/v1/videos"

Range(s) == { s[i] : i \in 1..Len(s) }

(* -------------------------- request_invidious -------------------------- *)

\* Variant: the entry just read is moved to the back of the pool.
PoolAfterRead_Rotate(pool) ==
    IF pool = << >> THEN pool ELSE Append(Tail(pool), Head(pool))

\* for api in apis: apis is the list object held in INVIDIOUS_APIS; the
\* comprehension reads it and leaves it as it is.
PoolAfterRead(pool) == pool

\* Variant: an executor with a single worker thread.
MaxWorkers_One(pool) == 1

\* max_workers=len(apis)
MaxWorkers(pool) == Len(pool)

\* The futures a worker thread is busy with.
Running(fs) == { j \in 1..Len(fs) : fs[j].state = "RUNNING" }

\* The futures waiting in the work queue.
Queued(fs) == { j \in 1..Len(fs) : fs[j].state = "PENDING" }

\* ex.submit: the work item is taken at once when a worker thread is free
\* or can still be created, and waits in the queue otherwise.
SubmitState(fs, pool) ==
    IF Cardinality(Running(fs)) < MaxWorkers(pool) THEN "RUNNING" ELSE "PENDING"

\* A worker thread that has finished an item takes the oldest queued one.
TakeQueued(fs) ==
    IF Queued(fs) = {} THEN fs
    ELSE LET j == CHOOSE q \in Queued(fs) : \A o \in Queued(fs) : q <= o
         IN [fs EXCEPT ![j].state = "RUNNING"]

\* Variant: an executor that accepts max_workers = 0.
ExecutorInitOutcome_NoCheck(max_workers) == NoOutcome

\* ThreadPoolExecutor(max_workers=len(apis)): the constructor raises
\* ValueError for max_workers <= 0, before anything is submitted.
ExecutorInitOutcome(max_workers) ==
    IF max_workers <= 0 THEN Raise("ValueError") ELSE NoOutcome

\* Variant: the first attempt that is not accepted ends the race.
Evaluate_FailFast(r) ==
    IF ~r.raised /\ r.status = 200 /\ ~ParseJson(r.text).raised
    THEN Return(ParseJson(r.text).value)
    ELSE Raise("RuntimeError")

\* Variant: the status of the response is not looked at.
Evaluate_AnyStatus(r) ==
    IF r.raised \/ ParseJson(r.text).raised THEN NoOutcome
    ELSE Return(ParseJson(r.text).value)

\* Variant: a 200 is returned whether or not its body parses.
Evaluate_NoParseCheck(r) ==
    IF ~r.raised /\ r.status = 200 THEN Return(ParseJson(r.text).value)
    ELSE NoOutcome

\* Variant: no try/except around f.result(): the exception of a failed
\* request leaves the loop.
Evaluate_NoExcept(r) ==
    IF r.raised THEN Raise(r.exc)
    ELSE IF r.status = 200 /\ ~ParseJson(r.text).raised
         THEN Return(ParseJson(r.text).value)
         ELSE NoOutcome

\* Variant: the status test is inverted (status_code != 200).
Evaluate_Not200(r) ==
    IF ~r.raised /\ r.status # 200 /\ ~ParseJson(r.text).raised
    THEN Return(ParseJson(r.text).value)
    ELSE NoOutcome

\* Body of the loop for one finished future: a raised exception of
\* f.result() or r.json() is swallowed, a 200 whose body parses returns
\* the parsed document, everything else goes on with the next future.
Evaluate(r) ==
    IF r.raised THEN NoOutcome
    ELSE IF r.status = 200
         THEN LET j == ParseJson(r.text)
              IN IF j.raised THEN NoOutcome ELSE Return(j.value)
         ELSE NoOutcome

\* Variant: the loop runs over the futures in pool order (for f in futures).
AsCompletedNext_PoolOrder(pre, compl, yl) ==
    IF Len(yl) + 1 \in Range(compl) THEN { Len(yl) + 1 } ELSE {}

\* as_completed(futures): the futures that can be yielded next.  Those
\* finished before the call come first, in no particular order (they are
\* collected into a set); the others follow in the order they finish.
AsCompletedNext(pre, compl, yl) ==
    LET rest == SelectSeq(compl, LAMBDA i : i \notin Range(yl))
    IN IF pre \ Range(yl) # {} THEN pre \ Range(yl)
       ELSE IF rest = << >> THEN {} ELSE { Head(rest) }

\* Leaving the with block: shutdown(wait=True) returns once every
\* submitted future has finished.
ShutdownDone(fs) == \A i \in 1..Len(fs) : fs[i].state = "FINISHED"

(* ------------------------------ api_video ------------------------------ *)

\* Field mapping of the primary answer: author.name, description.formatted.
\* .get on a value that is no dict raises AttributeError.
SubField(f) ==
    IF f.type = "absent" THEN [raised |-> FALSE, value |-> Absent]
    ELSE IF f.type = "object" THEN [raised |-> FALSE, value |-> Str(f.v)]
    ELSE [raised |-> TRUE, value |-> Absent]

MapPrimary(d) ==
    IF d.type # "object" \/ SubField(d.author).raised \/ SubField(d.description).raised
    THEN Raise("AttributeError")
    ELSE Return(Json("object", d.title, SubField(d.author).value,
                     SubField(d.description).value))

\* Field mapping of the mirror answer: title, author, description copied.
MapMirror(d) ==
    IF d.type # "object" THEN Raise("AttributeError")
    ELSE Return(Json("object", d.title, d.author, d.description))

\* Variant: only the exceptions of the request are caught
\* (except requests.RequestException).
PrimaryOutcome_NarrowExcept(r) ==
    IF r.raised THEN (IF r.exc = "RequestException" THEN NoOutcome ELSE Raise(r.exc))
    ELSE IF r.status = 200
         THEN IF ParseJson(r.text).raised THEN Raise("JSONDecodeError")
              ELSE MapPrimary(ParseJson(r.text).value)
         ELSE NoOutcome

\* The try block of api_video on what requests.get produced: the mapped
\* document of a 200, or nothing (fall through) on any exception or status.
PrimaryOutcome(r) ==
    IF r.raised THEN NoOutcome
    ELSE IF r.status = 200
         THEN LET j == ParseJson(r.text)
              IN IF j.raised \/ MapPrimary(j.value).kind = "raise"
                 THEN NoOutcome ELSE MapPrimary(j.value)
         ELSE NoOutcome

\* Positional arguments of the handler's call requests.get(url, ua(), MAX_TIMEOUT).
PrimaryCallArgs == 3

\* The dict {"comments": [...]} of api_comments; the documents of the model
\* carry no "comments" member, so the list is empty.
CommentsDoc == Json("comments", Absent, Absent, Absent)

\* Field mapping of api_comments: d.get("comments", []) needs a dict.
MapComments(d) ==
    IF d.type # "object" THEN Raise("AttributeError") ELSE Return(CommentsDoc)

\* What the handler makes of the outcome of request_invidious.
HandlerResult(o, out) ==
    IF out.kind = "raise" THEN out
    ELSE IF o = "video" THEN MapMirror(out.value)
    ELSE IF o = "comments" THEN MapComments(out.value)
    ELSE out

(* ---------------------------- api_streamurl ---------------------------- *)

STREAM_YTDL_API_BASE_URL == "https://yudlp.vercel.app/stream/"
SHORT_STREAM_API_BASE_URL == "https://yt-dl-kappa.vercel.app/short/"

Resolvers == { STREAM_YTDL_API_BASE_URL, SHORT_STREAM_API_BASE_URL }

\* Bodies of a resolver: a format list with and without the itag "18" entry.
TextFmt18 == "{formats:[{itag:18,url:u},{itag:22,url:v}]}"
TextFmtNo18 == "{formats:[{itag:22,url:v}]}"

\* Behaviours of a stream resolver for one request.
StreamResponses ==
    { NetError, Resp(500, TextFmt18), Resp(200, TextHtml), Resp(200, TextFmtNo18),
      Resp(200, TextFmt18) }

\* r.json() of a resolver body and the search of data["formats"] for
\* itag "18".
ParseFormats(text) ==
    CASE text = TextFmt18 -> [raised |-> FALSE, itag18 |-> TRUE]
      [] text = TextFmtNo18 -> [raised |-> FALSE, itag18 |-> FALSE]
      [] OTHER -> [raised |-> TRUE, itag18 |-> FALSE]

\* The url of the itag "18" entry a resolver serves.
UrlOf(base) ==
    IF base = STREAM_YTDL_API_BASE_URL THEN "https://yudlp.example/18.mp4"
    ELSE "https://yt-dl-kappa.example/18.mp4"

\* The dict {"url": u}; u is kept in the first field.
UrlDoc(u) == Json("url", Str(u), Absent, Absent)

\* JSONResponse({"error": "not found"}, status_code=404).
NotFound == [kind |-> "json404", exc |-> "not found", value |-> None]

\* base = SHORT_STREAM_API_BASE_URL if short else STREAM_YTDL_API_BASE_URL
BaseOf(sh) == IF sh THEN SHORT_STREAM_API_BASE_URL ELSE STREAM_YTDL_API_BASE_URL

\* Positional arguments of the handler's call requests.get(url, ua(), MAX_TIMEOUT).
StreamCallArgs == 3

\* api_streamurl on what requests.get produced for the chosen base: its
\* exception is not caught, raise_for_status raises for a 4xx/5xx, r.json()
\* may raise, and a format list without itag "18" yields the 404 response.
StreamOutcome(r, base) ==
    IF r.raised THEN Raise(r.exc)
    ELSE IF r.status >= 400 THEN Raise("HTTPError")
    ELSE IF ParseFormats(r.text).raised THEN Raise("JSONDecodeError")
    ELSE IF ParseFormats(r.text).itag18 THEN Return(UrlDoc(UrlOf(base)))
    ELSE NotFound

(* ------------------------------- actions ------------------------------- *)

Init ==
    /\ INVIDIOUS_APIS \in Registries
    /\ op = "none"
    /\ pc = "idle"
    /\ primarySvc = Unset
    /\ apis = << >>
    /\ futures = << >>
    /\ completion = << >>
    /\ preDone = {}
    /\ yielded = << >>
    /\ raceOut = NoOutcome
    /\ sent = << >>
    /\ result = NoOutcome
    /\ elapsed = 0
    /\ resolverSvc = [b \in Resolvers |-> Unset]
    /\ short = FALSE

raceVars == << futures, completion, preDone, yielded, raceOut >>

\* GET /api/search: the race over the search pool.
ApiSearch ==
    /\ pc = "idle"
    /\ op' = "search"
    /\ apis' = INVIDIOUS_APIS["search"]
    /\ pc' = "executor"
    /\ UNCHANGED << INVIDIOUS_APIS, resolverSvc, short, primarySvc, raceVars, sent, result, elapsed >>

\* GET /api/comments: the race over the comments pool.
ApiComments ==
    /\ pc = "idle"
    /\ op' = "comments"
    /\ apis' = INVIDIOUS_APIS["comments"]
    /\ pc' = "executor"
    /\ UNCHANGED << INVIDIOUS_APIS, resolverSvc, short, primarySvc, raceVars, sent, result, elapsed >>

\* GET /api/video arrives; the EDU service is in some condition.
ApiVideo ==
    /\ pc = "idle"
    /\ op' = "video"
    /\ \E s \in PrimaryResponses : primarySvc' = s
    /\ pc' = "primary"
    /\ UNCHANGED << INVIDIOUS_APIS, resolverSvc, short, apis, raceVars, sent, result, elapsed >>

\* api_video, the try block and the fall through to the mirror race.
VideoPrimary ==
    /\ pc = "primary"
    /\ LET r == requests_get(PrimaryCallArgs, primarySvc)
           out == PrimaryOutcome(r)
       IN /\ sent' = IF RequestsGetSends(PrimaryCallArgs)
                     THEN Append(sent, [base |-> EDU_VIDEO_API_BASE_URL, path |-> "id"])
                     ELSE sent
          /\ IF out.kind # "none"
             THEN /\ result' = out
                  /\ pc' = "done"
                  /\ apis' = apis
             ELSE /\ result' = result
                  /\ pc' = "executor"
                  /\ apis' = INVIDIOUS_APIS["video"]
    /\ UNCHANGED << INVIDIOUS_APIS, resolverSvc, short, op, primarySvc, raceVars, elapsed >>

\* request_invidious, entering the with block.
ExecutorInit ==
    /\ pc = "executor"
    /\ LET o == ExecutorInitOutcome(MaxWorkers(apis))
       IN IF o.kind = "raise"
          THEN raceOut' = o /\ pc' = "returned"
          ELSE raceOut' = raceOut /\ pc' = "submit"
    /\ UNCHANGED << INVIDIOUS_APIS, resolverSvc, short, op, primarySvc, apis, futures, completion,
                    preDone, yielded, sent, result, elapsed >>

\* request_invidious, one ex.submit of the list comprehension.
Submit ==
    /\ pc = "submit"
    /\ Len(futures) < Len(apis)
    /\ LET api == apis[Len(futures) + 1]
           st == SubmitState(futures, apis)
       IN /\ futures' = Append(futures, Future(api, st))
          /\ sent' = IF st = "RUNNING"
                     THEN Append(sent, [base |-> api, path |-> PathOf(op)])
                     ELSE sent
    /\ INVIDIOUS_APIS' = [INVIDIOUS_APIS EXCEPT ![op] = PoolAfterRead(@)]
    /\ UNCHANGED << resolverSvc, short, op, pc, primarySvc, apis, completion, preDone,
                    yielded, raceOut, result, elapsed >>

\* A worker thread: requests.get of future i ends, with an answer or an
\* error, and the thread goes on with the next queued item, if any.
Complete(i) ==
    /\ pc \in {"submit", "loop", "exit"}
    /\ i \in 1..Len(futures)
    /\ futures[i].state = "RUNNING"
    /\ \E r \in MirrorResponses :
          LET done == [futures EXCEPT ![i] = [api |-> @.api, state |-> "FINISHED", r |-> r]]
          IN /\ futures' = TakeQueued(done)
             /\ sent' = IF Queued(done) = {} THEN sent
                        ELSE LET j == CHOOSE q \in Running(TakeQueued(done)) : q \in Queued(done)
                             IN Append(sent, [base |-> done[j].api, path |-> PathOf(op)])
    /\ completion' = Append(completion, i)
    /\ UNCHANGED << INVIDIOUS_APIS, resolverSvc, short, op, pc, primarySvc, apis, preDone, yielded,
                    raceOut, result, elapsed >>

\* request_invidious, the call of as_completed once every request is submitted.
AsCompletedEnter ==
    /\ pc = "submit"
    /\ Len(futures) = Len(apis)
    /\ preDone' = { i \in 1..Len(futures) : futures[i].state = "FINISHED" }
    /\ pc' = "loop"
    /\ UNCHANGED << INVIDIOUS_APIS, resolverSvc, short, op, primarySvc, apis, futures, completion,
                    yielded, raceOut, sent, result, elapsed >>

\* request_invidious, one iteration of the loop over as_completed.
LoopStep ==
    /\ pc = "loop"
    /\ \E i \in AsCompletedNext(preDone, completion, yielded) :
          /\ yielded' = Append(yielded, i)
          /\ LET o == Evaluate(futures[i].r)
             IN IF o.kind = "none"
                THEN raceOut' = raceOut /\ pc' = pc
                ELSE raceOut' = o /\ pc' = "exit"
    /\ UNCHANGED << INVIDIOUS_APIS, resolverSvc, short, op, primarySvc, apis, futures, completion,
                    preDone, sent, result, elapsed >>

\* request_invidious, as_completed is exhausted: the loop ends.
LoopExhausted ==
    /\ pc = "loop"
    /\ Len(yielded) = Len(futures)
    /\ pc' = "exit"
    /\ UNCHANGED << INVIDIOUS_APIS, resolverSvc, short, op, primarySvc, apis, raceVars, sent, result,
                    elapsed >>

\* request_invidious, the with block is left: the pending return value is
\* handed back, or the raise after the block is reached.
ExecutorExit ==
    /\ pc = "exit"
    /\ ShutdownDone(futures)
    /\ raceOut' = IF raceOut.kind = "none" THEN Raise("RuntimeError") ELSE raceOut
    /\ pc' = "returned"
    /\ UNCHANGED << INVIDIOUS_APIS, resolverSvc, short, op, primarySvc, apis, futures, completion,
                    preDone, yielded, sent, result, elapsed >>

\* The handler maps what request_invidious returned, or lets its exception through.
HandlerReturn ==
    /\ pc = "returned"
    /\ result' = HandlerResult(op, raceOut)
    /\ pc' = "done"
    /\ UNCHANGED << INVIDIOUS_APIS, resolverSvc, short, op, primarySvc, apis, raceVars, sent, elapsed >>

\* The logical request is over; nothing of it is kept.
NextRequest ==
    /\ pc = "done"
    /\ op' = "none"
    /\ pc' = "idle"
    /\ primarySvc' = Unset
    /\ apis' = << >>
    /\ futures' = << >>
    /\ completion' = << >>
    /\ preDone' = {}
    /\ yielded' = << >>
    /\ raceOut' = NoOutcome
    /\ sent' = << >>
    /\ result' = NoOutcome
    /\ elapsed' = 0
    /\ resolverSvc' = [b \in Resolvers |-> Unset]
    /\ short' = FALSE
    /\ UNCHANGED INVIDIOUS_APIS

\* GET /api/streamurl: one request to the resolver chosen by short.
ApiStreamurl ==
    /\ pc = "idle"
    /\ op' = "stream"
    /\ \E sh \in BOOLEAN, env \in [Resolvers -> StreamResponses] :
          /\ short' = sh
          /\ resolverSvc' = env
          /\ sent' = IF RequestsGetSends(StreamCallArgs)
                     THEN Append(sent, [base |-> BaseOf(sh), path |-> "id"])
                     ELSE sent
          /\ result' = StreamOutcome(requests_get(StreamCallArgs, env[BaseOf(sh)]),
                                     BaseOf(sh))
    /\ pc' = "done"
    /\ UNCHANGED << INVIDIOUS_APIS, primarySvc, apis, raceVars, elapsed >>

\* Time passes while a race is in progress.
Tick ==
    /\ pc \in {"submit", "loop", "exit"}
    /\ elapsed < MaxElapsed
    /\ elapsed' = elapsed + 1
    /\ UNCHANGED << INVIDIOUS_APIS, resolverSvc, short, op, pc, primarySvc, apis, raceVars, sent, result >>

Next ==
    \/ ApiSearch
    \/ ApiComments
    \/ ApiVideo
    \/ VideoPrimary
    \/ ExecutorInit
    \/ Submit
    \/ \E i \in 1..Len(futures) : Complete(i)
    \/ AsCompletedEnter
    \/ LoopStep
    \/ LoopExhausted
    \/ ExecutorExit
    \/ HandlerReturn
    \/ ApiStreamurl
    \/ NextRequest

Spec == Init /\ [][Next]_vars

NextTimed == Next \/ Tick

SpecTimed == Init /\ [][NextTimed]_vars

(* ------------------------------- claims -------------------------------- *)

\* An answer with HTTP 200 and a body that parses as JSON.
Good(r) == ~r.raised /\ r.status = 200 /\ r.text \in {TextA, TextB, TextEdu, TextList}

\* The document a good answer carries.
BodyOf(r) ==
    CASE r.text = TextA -> DocA
      [] r.text = TextB -> DocB
      [] r.text = TextEdu -> DocEdu
      [] r.text = TextList -> DocList
      [] OTHER -> None

Finished == { i \in 1..Len(futures) : futures[i].state = "FINISHED" }

\* request_invidious has handed its outcome to the handler.
RaceOver == pc \in {"returned", "done"} /\ raceOut.kind # "none"

\* Place of x in the sequence s (0 when it is not in it).
Pos(s, x) == IF x \in Range(s) THEN CHOOSE p \in 1..Len(s) : s[p] = x ELSE 0

\* The outbound requests that went to a mirror.
MirrorRequests == SelectSeq(sent, LAMBDA e : e.base # EDU_VIDEO_API_BASE_URL)

\* C1: whenever some endpoint of a non-empty pool answered 200 with a
\* parseable body, request_invidious ends by returning a payload, whatever
\* the other endpoints did and in whatever order the attempts finished.
C1_ReturnsWhenOneGood ==
    (RaceOver /\ \E i \in Finished : Good(futures[i].r)) => raceOut.kind = "return"

\* A race that returned although another attempt failed and was evaluated first.
C1_Witness ==
    /\ RaceOver
    /\ raceOut.kind = "return"
    /\ Len(yielded) = 2
    /\ futures[yielded[1]].r.raised

\* C2: when no endpoint answers 200 with a parseable body, the race never
\* holds a payload, and over a non-empty pool it ends in
\* RuntimeError("All Invidious APIs failed").
C2_AllFailed ==
    LET allFail == \A i \in Finished : ~Good(futures[i].r)
    IN /\ allFail => raceOut.kind # "return"
       /\ (RaceOver /\ Len(apis) >= 1 /\ allFail) => raceOut = Raise("RuntimeError")

\* A race over two endpoints, one erroring and one answering 200 with an
\* unparseable body, that ended in RuntimeError.
C2_Witness ==
    /\ RaceOver
    /\ raceOut = Raise("RuntimeError")
    /\ \E i, j \in Finished : futures[i].r.raised /\ futures[j].r = Resp(200, TextHtml)

\* C3 as stated: the payload is the body of the first attempt, in completion
\* order, that answered 200 with a parseable body.
C3_FirstInCompletionOrder ==
    raceOut.kind = "return" =>
        LET good == SelectSeq(completion, LAMBDA i : Good(futures[i].r))
        IN good # << >> /\ raceOut.value = BodyOf(futures[Head(good)].r)

\* C3 amended: the payload is the body of the last attempt handed to the
\* loop, which is a good one; no good attempt was handed over before it; a
\* good attempt that finished earlier was, like the winner, already finished
\* when as_completed was entered; later completions leave the payload alone.
C3_FirstAcceptedAsYielded ==
    raceOut.kind = "return" =>
        /\ yielded # << >>
        /\ LET w == yielded[Len(yielded)]
           IN /\ Good(futures[w].r)
              /\ raceOut.value = BodyOf(futures[w].r)
              /\ \A p \in 1..Len(yielded) - 1 : ~Good(futures[yielded[p]].r)
              /\ \A j \in Finished \ {w} :
                    (Good(futures[j].r) /\ Pos(completion, j) < Pos(completion, w))
                        => (j \in preDone /\ w \in preDone)

\* The second endpoint of the pool won with document B; the first one
\* answered 200 with document A after that, and B stayed the payload.
C3_Witness ==
    /\ RaceOver
    /\ raceOut = Return(DocB)
    /\ completion = << 2, 1 >>
    /\ yielded = << 2 >>
    /\ futures[1].r = Resp(200, TextA)

\* C4: once an attempt has been accepted, request_invidious can hand the
\* payload back at once, other attempts of the race still being in flight.
C4_ReturnDoesNotWait ==
    (pc = "exit" /\ raceOut.kind = "return") => ENABLED ExecutorExit

\* The global deadline of the claim, in ticks of the clock of SpecTimed.
global_deadline == MaxElapsed - 1

\* C5: a race that has run past the global deadline without an accepted
\* attempt is not left waiting for its pending attempts.
C5_GlobalDeadline ==
    (elapsed > global_deadline /\ raceOut.kind = "none")
        => ~(pc = "loop" /\ \E i \in 1..Len(futures) : futures[i].state = "RUNNING")

\* C6: a race over an empty pool fails with an exception other than the
\* RuntimeError of a race whose attempts all failed, and no request is sent.
C6_EmptyPool ==
    (apis = << >> /\ (pc \in {"submit", "loop", "exit", "returned"}
                        \/ (pc = "done" /\ raceOut.kind # "none")))
        => /\ raceOut.kind = "raise"
           /\ raceOut # Raise("RuntimeError")
           /\ futures = << >>
           /\ MirrorRequests = << >>

\* A search over a deployment without search mirrors ended in ValueError.
C6_Witness ==
    /\ pc = "returned"
    /\ op = "search"
    /\ apis = << >>
    /\ raceOut = Raise("ValueError")
    /\ sent = << >>

\* C7: an attempt handed to the loop ends the race with its body as the
\* payload exactly when it answered 200 with a parseable body; after any
\* other attempt the race goes on.
C7_AcceptIffGood ==
    \A p \in 1..Len(yielded) :
        LET r == futures[yielded[p]].r
        IN /\ Good(r) <=> (p = Len(yielded) /\ raceOut = Return(BodyOf(r)))
           /\ (~Good(r) /\ p = Len(yielded) /\ Len(yielded) < Len(apis))
                 => (pc = "loop" /\ raceOut.kind = "none")

\* A 200 with an empty body was rejected and the race went on to accept
\* the answer of the other endpoint.
C7_Witness ==
    /\ RaceOver
    /\ Len(yielded) = 2
    /\ futures[yielded[1]].r = Resp(200, TextEmpty)
    /\ raceOut = Return(BodyOf(futures[yielded[2]].r))

\* C8: over a non-empty pool the race raises only RuntimeError, and only
\* when every attempt was dispatched, has finished, was evaluated, and none
\* was good; the failure of one attempt never leaves the race before that.
C8_FailsOnlyAfterAll ==
    (raceOut.kind = "raise" /\ apis # << >>)
        => /\ raceOut = Raise("RuntimeError")
           /\ Len(futures) = Len(apis)
           /\ Finished = 1..Len(apis)
           /\ Range(yielded) = 1..Len(apis)
           /\ \A i \in Finished : ~Good(futures[i].r)

\* A network error was evaluated while the other attempt was still in flight,
\* and the race kept waiting.
C8_Witness ==
    /\ pc = "loop"
    /\ Len(yielded) = 1
    /\ futures[yielded[1]].r.raised
    /\ \E i \in 1..Len(futures) : futures[i].state = "RUNNING"
    /\ raceOut.kind = "none"

\* The EDU service is up: asked for this video, it answers 200 with a
\* well-formed document.
PrimaryHealthy == op = "video" /\ primarySvc = Resp(200, TextEdu)

\* C9: in a video request for which the primary service answers 200 with a
\* parseable body, no request goes to a mirror of the video pool.
C9_NoMirrorWhenPrimaryOk ==
    PrimaryHealthy => MirrorRequests = << >>

\* C10: a video request for which the primary service answers 200 with a
\* well-formed document asks the primary exactly once and ends with that
\* document, mapped, as its result.
C10_PrimaryResult ==
    (pc = "done" /\ PrimaryHealthy)
        => /\ Len(SelectSeq(sent, LAMBDA e : e.base = EDU_VIDEO_API_BASE_URL)) = 1
           /\ result = Return(Json("object", Str("E"), Str("e"), Str("fe")))

\* Keys of a returned dict other than the payload fields of the model.
ExtraKeys(v) == DOMAIN v \ {"type", "title", "author", "description"}

\* C11: every successful result of the video operation carries, next to
\* the payload fields, a tag naming the provider family that answered; with
\* the primary down and a mirror answering, the result is the mirror's
\* payload with such a tag.
C11_ResultTagged ==
    (pc = "done" /\ op = "video" /\ result.kind = "return")
        => /\ ExtraKeys(result.value) # {}
           /\ result.value.title = raceOut.value.title

\* The resolver api_streamurl asks first, and the one left as the next candidate.
FirstResolver == BaseOf(short)
NextResolver == BaseOf(~short)

\* Requests of this logical request that went to a stream resolver.
ResolverRequests == SelectSeq(sent, LAMBDA e : e.base \in Resolvers)

\* C12 (Scenario E): when the first resolver answers 200 without the
\* itag "18" entry and the next one answers 200 with it, stream resolution
\* ends with the url of the next resolver.
C12_MissingFormatFallsThrough ==
    (pc = "done" /\ op = "stream"
        /\ resolverSvc[FirstResolver] = Resp(200, TextFmtNo18)
        /\ resolverSvc[NextResolver] = Resp(200, TextFmt18))
        => result = Return(UrlDoc(UrlOf(NextResolver)))

C14_StablePoolSamePayload ==
    \A t \in {TextA, TextB, TextList} :
        (RaceOver /\ apis # << >>
            /\ \A i \in 1..Len(futures) : futures[i].r = Resp(200, t))
            => raceOut = Return(BodyOf(Resp(200, t)))

\* Both endpoints answered 200 with document A; the second one of the pool
\* finished and was evaluated first.
C14_Witness ==
    /\ RaceOver
    /\ Len(futures) = 2
    /\ \A i \in 1..2 : futures[i].r = Resp(200, TextA)
    /\ completion = << 2, 1 >>
    /\ yielded = << 2 >>
    /\ raceOut = Return(DocA)

\* C15: a race over n >= 1 entries sends one request per pool entry, in pool
\* order and never a second one; no submitted attempt waits in the queue
\* for a worker; nothing is evaluated before all n are submitted, and from
\* then on exactly n requests have been sent.
C15_OneRequestPerEntry ==
    (apis # << >> /\ pc \in {"submit", "loop", "exit", "returned", "done"})
        => /\ Queued(futures) = {}
           /\ MirrorRequests = [k \in 1..Len(futures) |->
                                   [base |-> apis[k], path |-> PathOf(op)]]
           /\ Len(futures) <= Len(apis)
           /\ (pc # "submit" \/ yielded # << >>) => Len(MirrorRequests) = Len(apis)

\* A pool that lists the same mirror twice: two requests are out, both in
\* flight, when the loop starts.
C15_Witness ==
    /\ pc = "loop"
    /\ Len(apis) = 2
    /\ apis[1] = apis[2]
    /\ Len(MirrorRequests) = 2
    /\ Running(futures) = {1, 2}

====
